---- MODULE Spec2Model ----
(***************************************************************************)
(* Trap handling core of the 02b-trap-return-kern kernel                   *)
(* (kernel/src/trap/app_trap.rs): TrapContext, app_init_context,           *)
(* rust_trap_handler, restore_trap and trap_entry, executed instruction    *)
(* by instruction on one RISC-V hart with two loaded applications.         *)
(***************************************************************************)
EXTENDS Integers, Naturals, Sequences, FiniteSets, TLC

(***************************************************************************)
(* Bounds of the model.                                                    *)
(***************************************************************************)
\* width of a machine word in the model (the hart has 64-bit words)
XLEN == 16
\* number of traps taken from user mode in one run
MaxTraps == 2

Modulus == 2 ^ XLEN
Word == 0 .. (Modulus - 1)

\* wrapping machine addition (imm may be negative, |imm| < Modulus)
WAdd(a, imm) == (a + Modulus + imm) % Modulus

(***************************************************************************)
(* Program constants.                                                      *)
(***************************************************************************)
\* bytes per context slot: the "*8" of every ld/sd offset
SlotBytes == 8
\* words reserved for a TrapContext: "addi sp, sp, -33*8"
CtxWords == 33
\* width of the ecall instruction: "ctx.sepc.wrapping_add(4)"
EcallWidth == 4

\* register numbers of the ABI names used by the code
x_ra == 1
x_sp == 2
x_tp == 4
x_t0 == 5
x_t1 == 6
x_t2 == 7
x_a0 == 10
x_t3 == 28

Gpr == 1 .. 31

\* field name -> word index, in the declaration order of #[repr(C)] TrapContext
\* the structure with the fields a6 and a7 declared in the opposite order
TrapContext_a7first ==
    [ ra |-> 0, sp |-> 1, gp |-> 2, tp |-> 3, t0 |-> 4, t1 |-> 5, t2 |-> 6,
      s0 |-> 7, s1 |-> 8, a0 |-> 9, a1 |-> 10, a2 |-> 11, a3 |-> 12,
      a4 |-> 13, a5 |-> 14, a7 |-> 15, a6 |-> 16, s2 |-> 17, s3 |-> 18,
      s4 |-> 19, s5 |-> 20, s6 |-> 21, s7 |-> 22, s8 |-> 23, s9 |-> 24,
      s10 |-> 25, s11 |-> 26, t3 |-> 27, t4 |-> 28, t5 |-> 29, t6 |-> 30,
      sstatus |-> 31, sepc |-> 32 ]

TrapContext ==
    [ ra |-> 0, sp |-> 1, gp |-> 2, tp |-> 3, t0 |-> 4, t1 |-> 5, t2 |-> 6,
      s0 |-> 7, s1 |-> 8, a0 |-> 9, a1 |-> 10, a2 |-> 11, a3 |-> 12,
      a4 |-> 13, a5 |-> 14, a6 |-> 15, a7 |-> 16, s2 |-> 17, s3 |-> 18,
      s4 |-> 19, s5 |-> 20, s6 |-> 21, s7 |-> 22, s8 |-> 23, s9 |-> 24,
      s10 |-> 25, s11 |-> 26, t3 |-> 27, t4 |-> 28, t5 |-> 29, t6 |-> 30,
      sstatus |-> 31, sepc |-> 32 ]

\* bit positions of the sstatus fields the code and the hart use
SIE_BIT == 1
SPIE_BIT == 5
SPP_BIT == 8

Bit(v, b) == (v \div (2 ^ b)) % 2
SetBit(v, b, x) == v - Bit(v, b) * (2 ^ b) + x * (2 ^ b)

\* a construction that leaves the previous-privilege bit as it finds it
set_spp_kept(s) == s

\* sstatus::set_spp(SPP::User): clear the previous-privilege bit
set_spp_User(s) == SetBit(s, SPP_BIT, 0)

(***************************************************************************)
(* Environment: applications, addresses, collaborator results.             *)
(***************************************************************************)
NumApps == 2
Apps == 0 .. (NumApps - 1)

\* link addresses of the two trap vectors (direct mode)
SymAddr == [ trap_entry |-> 512, kernel_trap |-> 768 ]

\* top of application i's kernel stack; the context sits right below it
KernelStackTop(i) == 2048 + 1024 * i
CtxBase(i) == KernelStackTop(i) - CtxWords * SlotBytes
CtxAddrs(i) == { CtxBase(i) + SlotBytes * k : k \in 0 .. (CtxWords - 1) }
MemAddrs == UNION { CtxAddrs(i) : i \in Apps }

\* construction parameters of application i
UserStack(i) == 36864 + 256 * i
Entries == { 4096, Modulus - EcallWidth }
EntryOf(i) == IF i = 0 THEN 4096 ELSE Modulus - EcallWidth

\* what the hart may hold in sstatus and stvec when the loader starts
BootStates ==
    { [sstatus |-> 2 ^ SIE_BIT, stvec |-> SymAddr.kernel_trap],
      [sstatus |-> 2 ^ SPP_BIT + 2 ^ SPIE_BIT, stvec |-> SymAddr.trap_entry] }

\* value left in a register the Rust code is free to clobber
Junk == 43690

\* results of the syscall collaborator
SyscallAnswers == { [code |-> 3, extra |-> 0], [code |-> 117, extra |-> 9] }
ExitCodes == { 0 }
OptText == { "none", "some" }

\* scause values
UserEnvCall == 8
StoreFault == 7
StorePageFault == 15
IllegalInstruction == 2
LoadFault == 5
SupervisorTimer == 2 ^ (XLEN - 1) + 5
FaultCauses == { StoreFault, StorePageFault, IllegalInstruction, LoadFault,
                 SupervisorTimer }


(***************************************************************************)
(* The two naked functions, one record per instruction.                    *)
(*   r: register operand, k: slot index / immediate / source register,     *)
(*   c: CSR or symbol operand.                                              *)
(***************************************************************************)
I(op, r, k, c) == [op |-> op, r |-> r, k |-> k, c |-> c]

\* x1, x3, x4, ..., x31: every general-purpose register except sp
SavedGprs == <<1>> \o [n \in 1 .. 29 |-> n + 2]

\* the save sequence with the slots of t0 and t1 exchanged
SaveSeq_swapped ==
    [n \in 1 .. 30 |->
        I("sd", SavedGprs[n],
          IF SavedGprs[n] = x_t0 THEN x_t1 - 1
          ELSE IF SavedGprs[n] = x_t1 THEN x_t0 - 1
          ELSE SavedGprs[n] - 1, "-")]

\* "sd xN, (N-1)*8(sp)" for x1, x3..x31
SaveSeq == [n \in 1 .. 30 |-> I("sd", SavedGprs[n], SavedGprs[n] - 1, "-")]

\* "ld xN, (N-1)*8(sp)" for x1, x3..x31
LoadSeq == [n \in 1 .. 30 |-> I("ld", SavedGprs[n], SavedGprs[n] - 1, "-")]

\* the restore sequence leaving the kernel-trap vector in stvec
RestoreSeq_keepsVector ==
    << I("ld", x_t0, 31, "-"),
       I("ld", x_t1, 32, "-"),
       I("ld", x_t2, 1, "-"),
       I("csrw", x_t0, 0, "sstatus"),
       I("csrw", x_t1, 0, "sepc"),
       I("csrw", x_t2, 0, "sscratch"),
       I("la", x_t3, 0, "kernel_trap"),
       I("csrw", x_t3, 0, "stvec") >>
    \o LoadSeq \o
    << I("addi", x_sp, CtxWords * SlotBytes, "-"),
       I("csrrw", x_sp, x_sp, "sscratch"),
       I("sret", 0, 0, "-") >>

\* a restore sequence that does not release the context block
RestoreSeq_noRelease ==
    << I("ld", x_t0, 31, "-"),
       I("ld", x_t1, 32, "-"),
       I("ld", x_t2, 1, "-"),
       I("csrw", x_t0, 0, "sstatus"),
       I("csrw", x_t1, 0, "sepc"),
       I("csrw", x_t2, 0, "sscratch"),
       I("la", x_t3, 0, "trap_entry"),
       I("csrw", x_t3, 0, "stvec") >>
    \o LoadSeq \o
    << I("csrrw", x_sp, x_sp, "sscratch"),
       I("sret", 0, 0, "-") >>

\* the restore sequence as written in restore_trap
RestoreSeq ==
    << I("ld", x_t0, 31, "-"),
       I("ld", x_t1, 32, "-"),
       I("ld", x_t2, 1, "-"),
       I("csrw", x_t0, 0, "sstatus"),
       I("csrw", x_t1, 0, "sepc"),
       I("csrw", x_t2, 0, "sscratch"),
       I("la", x_t3, 0, "trap_entry"),
       I("csrw", x_t3, 0, "stvec") >>
    \o LoadSeq \o
    << I("addi", x_sp, CtxWords * SlotBytes, "-"),
       I("csrrw", x_sp, x_sp, "sscratch"),
       I("sret", 0, 0, "-") >>

\* the save sequence calling the dispatcher without switching stvec
EntrySeq_noSwitch ==
    << I("csrrw", x_sp, x_sp, "sscratch"),
       I("addi", x_sp, 0 - CtxWords * SlotBytes, "-") >>
    \o SaveSeq \o
    << I("csrr", x_t0, 0, "sstatus"),
       I("sd", x_t0, 31, "-"),
       I("csrr", x_t1, 0, "sepc"),
       I("sd", x_t1, 32, "-"),
       I("csrr", x_t2, 0, "sscratch"),
       I("sd", x_t2, 1, "-"),
       I("la", x_t3, 0, "kernel_trap"),
       I("la", x_t3, 0, "kernel_trap"),
       I("mv", x_a0, x_sp, "-"),
       I("call", 0, 0, "rust_trap_handler") >>

\* a save sequence that stores the user stack pointer before sstatus and sepc
EntrySeq_spFirst ==
    << I("csrrw", x_sp, x_sp, "sscratch"),
       I("addi", x_sp, 0 - CtxWords * SlotBytes, "-") >>
    \o SaveSeq \o
    << I("csrr", x_t2, 0, "sscratch"),
       I("sd", x_t2, 1, "-"),
       I("csrr", x_t0, 0, "sstatus"),
       I("sd", x_t0, 31, "-"),
       I("csrr", x_t1, 0, "sepc"),
       I("sd", x_t1, 32, "-"),
       I("la", x_t3, 0, "kernel_trap"),
       I("csrw", x_t3, 0, "stvec"),
       I("mv", x_a0, x_sp, "-"),
       I("call", 0, 0, "rust_trap_handler") >>

\* the save sequence and the call of trap_entry
EntrySeq ==
    << I("csrrw", x_sp, x_sp, "sscratch"),
       I("addi", x_sp, 0 - CtxWords * SlotBytes, "-") >>
    \o SaveSeq \o
    << I("csrr", x_t0, 0, "sstatus"),
       I("sd", x_t0, 31, "-"),
       I("csrr", x_t1, 0, "sepc"),
       I("sd", x_t1, 32, "-"),
       I("csrr", x_t2, 0, "sscratch"),
       I("sd", x_t2, 1, "-"),
       I("la", x_t3, 0, "kernel_trap"),
       I("csrw", x_t3, 0, "stvec"),
       I("mv", x_a0, x_sp, "-"),
       I("call", 0, 0, "rust_trap_handler") >>

\* a tail of trap_entry that leaves the vector-switch scratch value in t3
EntryTailSeq_staleT3 ==
    << I("ld", x_t0, 31, "-"),
       I("ld", x_t1, 32, "-"),
       I("ld", x_t2, 1, "-"),
       I("csrw", x_t0, 0, "sstatus"),
       I("csrw", x_t1, 0, "sepc"),
       I("csrw", x_t2, 0, "sscratch"),
       I("la", x_t3, 0, "trap_entry"),
       I("csrw", x_t3, 0, "stvec") >>
    \o [n \in 1 .. 30 |->
          IF SavedGprs[n] = x_t3 THEN I("ld", x_t3 - 1, x_t3 - 2, "-")
          ELSE LoadSeq[n]] \o
    << I("addi", x_sp, CtxWords * SlotBytes, "-"),
       I("csrrw", x_sp, x_sp, "sscratch"),
       I("sret", 0, 0, "-") >>

\* the restore sequence as written in the tail of trap_entry
EntryTailSeq ==
    << I("ld", x_t0, 31, "-"),
       I("ld", x_t1, 32, "-"),
       I("ld", x_t2, 1, "-"),
       I("csrw", x_t0, 0, "sstatus"),
       I("csrw", x_t1, 0, "sepc"),
       I("csrw", x_t2, 0, "sscratch"),
       I("la", x_t3, 0, "trap_entry"),
       I("csrw", x_t3, 0, "stvec") >>
    \o LoadSeq \o
    << I("addi", x_sp, CtxWords * SlotBytes, "-"),
       I("csrrw", x_sp, x_sp, "sscratch"),
       I("sret", 0, 0, "-") >>

trap_entry == EntrySeq \o EntryTailSeq
restore_trap == RestoreSeq

Code == [ trap_entry |-> trap_entry, restore_trap |-> restore_trap ]

\* index of the instruction after "call {trap_handler}"
CallReturnIdx == Len(EntrySeq) + 1

At(fn, idx) == [fn |-> fn, idx |-> idx]

(***************************************************************************)
(* State.                                                                  *)
(***************************************************************************)
VARIABLES
    pc,        \* [fn, idx]: the function the hart executes and the instruction in it
    priv,      \* "U" or "S"
    regs,      \* x1..x31
    upc,       \* program counter of the user code
    sstatus, sepc, scause, stval, sscratch, stvec,
    mem,       \* kernel memory holding the contexts, by byte address
    task,      \* scheduler: state of each application
    current,   \* scheduler: application whose context was last resumed
    console,   \* lines printed by the running dispatcher invocation
    traps,     \* number of traps taken from user mode
    snap,      \* per application: its user state at its last trap, as a context
    clean,     \* per application: its saved context is still what the trap saved
    inflight,  \* the context the running crossing has to carry
    diverged,  \* the running dispatcher invocation handed over to the scheduler
    nestedAt,  \* where the hart was when a trap arrived in S-mode
    entryCtx,  \* the context as the dispatcher received it
    syscalls,  \* invocations of the syscall collaborator by this dispatcher run
    outcome,   \* what the running dispatcher invocation did
    built      \* every context app_init_context returned, with its arguments

hw == <<priv, regs, upc, sstatus, sepc, scause, stval, sscratch, stvec, mem>>
sched == <<task, current>>
disp == <<console, entryCtx, syscalls, outcome>>
ghost == <<traps, snap, clean, inflight, diverged, nestedAt, built>>
vars == <<pc, hw, sched, disp, ghost>>

Load(a) == IF a \in DOMAIN mem THEN mem[a] ELSE Junk
Store(a, v) == IF a \in DOMAIN mem THEN [mem EXCEPT ![a] = v] ELSE mem

\* the 33 words at base, as the struct the dispatcher sees
CtxAt(m, base) ==
    [k \in 0 .. (CtxWords - 1) |->
        IF WAdd(base, SlotBytes * k) \in DOMAIN m
        THEN m[WAdd(base, SlotBytes * k)] ELSE Junk]

WriteCtx(m, base, ctx) ==
    [a \in DOMAIN m |->
        IF \E k \in 0 .. (CtxWords - 1) : a = WAdd(base, SlotBytes * k)
        THEN ctx[(a - base) \div SlotBytes]
        ELSE m[a]]

NoOutcome == [kind |-> "none"]
NoWhere == [fn |-> "none", idx |-> 0]

\* the context that holds the register file rs and the CSR values st and epc
UserCtx(rs, st, epc) ==
    [k \in 0 .. (CtxWords - 1) |->
        IF k < 31 THEN rs[k + 1] ELSE IF k = 31 THEN st ELSE epc]
ZeroCtx == [k \in 0 .. (CtxWords - 1) |-> 0]

(***************************************************************************)
(* TrapContext::app_init_context                                           *)
(***************************************************************************)
\* construction that leaves the tp slot zero
app_init_context_noTp(entry, app_id, sp, live) ==
    [k \in 0 .. (CtxWords - 1) |->
        CASE k = TrapContext.sstatus -> set_spp_User(live)
          [] k = TrapContext.sepc -> entry
          [] k = TrapContext.sp -> sp
          [] OTHER -> 0]

\* the context returned when the live sstatus CSR holds `live`
app_init_context(entry, app_id, sp, live) ==
    [k \in 0 .. (CtxWords - 1) |->
        CASE k = TrapContext.sstatus -> set_spp_User(live)
          [] k = TrapContext.sepc -> entry
          [] k = TrapContext.sp -> sp
          [] k = TrapContext.tp -> app_id
          [] OTHER -> 0]

Init ==
    /\ pc = At("boot", 0)
    /\ priv = "S"
    /\ regs = [r \in Gpr |-> 0]
    /\ upc = 0
    /\ \E b \in BootStates : sstatus = b.sstatus /\ stvec = b.stvec
    /\ sepc = 0
    /\ scause = 0
    /\ stval = 0
    /\ sscratch = 0
    /\ mem = [a \in MemAddrs |-> 0]
    /\ task = [i \in Apps |-> "unloaded"]
    /\ current = 0 - 1
    /\ console = << >>
    /\ traps = 0
    /\ snap = [i \in Apps |-> ZeroCtx]
    /\ clean = [i \in Apps |-> FALSE]
    /\ inflight = ZeroCtx
    /\ diverged = FALSE
    /\ nestedAt = NoWhere
    /\ entryCtx = ZeroCtx
    /\ syscalls = 0
    /\ outcome = NoOutcome
    /\ built = {}


(***************************************************************************)
(* The hart: user execution, trap delivery, and the instructions the two   *)
(* naked functions use.                                                    *)
(***************************************************************************)
\* a batch of user instructions: it gives every register, sp and tp included,
\* a value of its own and ends at the place of the program's other ecall
UserBase == 100
UserRegs == [r \in Gpr |-> UserBase + r]
UserText == 8192

UserExec ==
    /\ pc.fn = "user"
    /\ regs # UserRegs \/ upc # UserText
    /\ regs' = UserRegs
    /\ upc' = UserText
    /\ UNCHANGED <<pc, priv, sstatus, sepc, scause, stval, sscratch, stvec, mem,
                   sched, disp, ghost>>

\* sstatus after the hart takes a trap into S-mode from privilege bit p
TrapSstatus(s, p) ==
    SetBit(SetBit(SetBit(s, SPIE_BIT, Bit(s, SIE_BIT)), SIE_BIT, 0), SPP_BIT, p)

\* where the hart jumps for the trap-delivery target v
TrapTarget(v) ==
    IF v = SymAddr.trap_entry THEN At("trap_entry", 1) ELSE At("kernel_trap", 0)

\* a trap taken in user mode
UserTrap(cause, tval) ==
    /\ pc.fn = "user"
    /\ traps < MaxTraps
    /\ sepc' = upc
    /\ scause' = cause
    /\ stval' = tval
    /\ sstatus' = TrapSstatus(sstatus, 0)
    /\ priv' = "S"
    /\ pc' = TrapTarget(stvec)
    /\ traps' = traps + 1
    /\ snap' = [snap EXCEPT ![current] = UserCtx(regs, sstatus', upc)]
    /\ clean' = [clean EXCEPT ![current] = TRUE]
    /\ inflight' = UserCtx(regs, sstatus', upc)
    /\ diverged' = FALSE
    /\ UNCHANGED <<regs, upc, sscratch, stvec, mem, sched, disp, nestedAt, built>>

StvalVals == { 64 }

UserEcall == UserTrap(UserEnvCall, 0)

UserFault == \E c \in FaultCauses, v \in StvalVals : UserTrap(c, v)

InCode == pc.fn \in DOMAIN Code
Instr == IF InCode THEN Code[pc.fn][pc.idx] ELSE I("none", 0, 0, "-")
Advance == pc' = At(pc.fn, pc.idx + 1)

\* an exchange that reads sscratch into the register without writing it back
csrrw_readOnly ==
    /\ Instr.op = "csrrw"
    /\ regs' = [regs EXCEPT ![Instr.r] = sscratch]
    /\ Advance
    /\ UNCHANGED <<priv, upc, sstatus, sepc, scause, stval, sscratch, stvec, mem,
                   sched, disp, ghost>>

csrrw ==
    /\ Instr.op = "csrrw"
    /\ regs' = [regs EXCEPT ![Instr.r] = sscratch]
    /\ sscratch' = regs[Instr.k]
    /\ Advance
    /\ UNCHANGED <<priv, upc, sstatus, sepc, scause, stval, stvec, mem,
                   sched, disp, ghost>>

addi ==
    /\ Instr.op = "addi"
    /\ regs' = [regs EXCEPT ![Instr.r] = WAdd(regs[Instr.r], Instr.k)]
    /\ Advance
    /\ UNCHANGED <<priv, upc, sstatus, sepc, scause, stval, sscratch, stvec, mem,
                   sched, disp, ghost>>

sd ==
    /\ Instr.op = "sd"
    /\ mem' = Store(WAdd(regs[x_sp], SlotBytes * Instr.k), regs[Instr.r])
    /\ Advance
    /\ UNCHANGED <<priv, regs, upc, sstatus, sepc, scause, stval, sscratch, stvec,
                   sched, disp, ghost>>

ld ==
    /\ Instr.op = "ld"
    /\ regs' = [regs EXCEPT ![Instr.r] = Load(WAdd(regs[x_sp], SlotBytes * Instr.k))]
    /\ Advance
    /\ UNCHANGED <<priv, upc, sstatus, sepc, scause, stval, sscratch, stvec, mem,
                   sched, disp, ghost>>

Csr(c) ==
    CASE c = "sstatus" -> sstatus
      [] c = "sepc" -> sepc
      [] c = "sscratch" -> sscratch
      [] c = "stvec" -> stvec

csrr ==
    /\ Instr.op = "csrr"
    /\ regs' = [regs EXCEPT ![Instr.r] = Csr(Instr.c)]
    /\ Advance
    /\ UNCHANGED <<priv, upc, sstatus, sepc, scause, stval, sscratch, stvec, mem,
                   sched, disp, ghost>>

csrw ==
    /\ Instr.op = "csrw"
    /\ sstatus' = IF Instr.c = "sstatus" THEN regs[Instr.r] ELSE sstatus
    /\ sepc' = IF Instr.c = "sepc" THEN regs[Instr.r] ELSE sepc
    /\ sscratch' = IF Instr.c = "sscratch" THEN regs[Instr.r] ELSE sscratch
    /\ stvec' = IF Instr.c = "stvec" THEN regs[Instr.r] ELSE stvec
    /\ Advance
    /\ UNCHANGED <<priv, regs, upc, scause, stval, mem, sched, disp, ghost>>

la ==
    /\ Instr.op = "la"
    /\ regs' = [regs EXCEPT ![Instr.r] = SymAddr[Instr.c]]
    /\ Advance
    /\ UNCHANGED <<priv, upc, sstatus, sepc, scause, stval, sscratch, stvec, mem,
                   sched, disp, ghost>>

mv ==
    /\ Instr.op = "mv"
    /\ regs' = [regs EXCEPT ![Instr.r] = regs[Instr.k]]
    /\ Advance
    /\ UNCHANGED <<priv, upc, sstatus, sepc, scause, stval, sscratch, stvec, mem,
                   sched, disp, ghost>>

\* "call {trap_handler}": ra receives the return address, the dispatcher starts
call ==
    /\ Instr.op = "call"
    /\ regs' = [regs EXCEPT ![x_ra] = WAdd(SymAddr.trap_entry, EcallWidth * pc.idx)]
    /\ pc' = At(Instr.c, 0)
    /\ console' = << >>
    /\ entryCtx' = CtxAt(mem, regs[x_a0])
    /\ syscalls' = 0
    /\ outcome' = NoOutcome
    /\ UNCHANGED <<priv, upc, sstatus, sepc, scause, stval, sscratch, stvec, mem,
                   sched, ghost>>

\* sstatus after sret
SretSstatus(s) ==
    SetBit(SetBit(SetBit(s, SIE_BIT, Bit(s, SPIE_BIT)), SPIE_BIT, 1), SPP_BIT, 0)

sret ==
    /\ Instr.op = "sret"
    /\ priv' = IF Bit(sstatus, SPP_BIT) = 0 THEN "U" ELSE "S"
    /\ upc' = sepc
    /\ sstatus' = SretSstatus(sstatus)
    /\ pc' = IF Bit(sstatus, SPP_BIT) = 0 THEN At("user", 0) ELSE At("s_mode", 0)
    /\ UNCHANGED <<regs, sepc, scause, stval, sscratch, stvec, mem,
                   sched, disp, ghost>>


(***************************************************************************)
(* rust_trap_handler                                                       *)
(***************************************************************************)
\* the context the dispatcher was handed: a0 holds its base address
CtxPtr == regs[x_a0]
Field(name) == Load(WAdd(CtxPtr, SlotBytes * TrapContext[name]))
SetField(m, name, v) ==
    IF WAdd(CtxPtr, SlotBytes * TrapContext[name]) \in DOMAIN m
    THEN [m EXCEPT ![WAdd(CtxPtr, SlotBytes * TrapContext[name])] = v]
    ELSE m

\* registers the Rust calling convention lets a callee overwrite
CallerSaved == {1, 5, 6, 7} \cup (10 .. 17) \cup (28 .. 31)
Clobbered(old) == [r \in Gpr |-> IF r \in CallerSaved THEN Junk ELSE old[r]]

\* the arguments of syscall(ctx.a7, ctx.a6, [ctx.a0 .. ctx.a5], app_id)
SyscallArgs ==
    [ op |-> Field("a7"), sec |-> Field("a6"),
      args |-> << Field("a0"), Field("a1"), Field("a2"),
                  Field("a3"), Field("a4"), Field("a5") >>,
      app_id |-> Field("tp") ]

InHandler == pc.fn = "rust_trap_handler"
IsSyscall == InHandler /\ scause = UserEnvCall

\* a Return arm that forgets to step over the ecall
handler_Return_noAdvance(ans) ==
    /\ IsSyscall
    /\ mem' = SetField(SetField(mem, "a0", ans.code), "a1", ans.extra)
    /\ regs' = Clobbered(regs)
    /\ pc' = At("trap_entry", CallReturnIdx)
    /\ syscalls' = syscalls + 1
    /\ outcome' = [kind |-> "Return", call |-> SyscallArgs, ans |-> ans]
    /\ clean' = [clean EXCEPT ![current] = FALSE]
    /\ inflight' = CtxAt(mem', CtxPtr)
    /\ UNCHANGED <<priv, upc, sstatus, sepc, scause, stval, sscratch, stvec,
                   sched, console, entryCtx, traps, snap, diverged, nestedAt, built>>

\* a Return arm that also stores the extra value in a2
handler_Return_spillsA2(ans) ==
    /\ IsSyscall
    /\ mem' = SetField(SetField(SetField(SetField(mem, "a0", ans.code),
                                         "a1", ans.extra), "a2", ans.extra),
                       "sepc", WAdd(Field("sepc"), EcallWidth))
    /\ regs' = Clobbered(regs)
    /\ pc' = At("trap_entry", CallReturnIdx)
    /\ syscalls' = syscalls + 1
    /\ outcome' = [kind |-> "Return", call |-> SyscallArgs, ans |-> ans]
    /\ clean' = [clean EXCEPT ![current] = FALSE]
    /\ inflight' = CtxAt(mem', CtxPtr)
    /\ UNCHANGED <<priv, upc, sstatus, sepc, scause, stval, sscratch, stvec,
                   sched, console, entryCtx, traps, snap, diverged, nestedAt, built>>

\* a Return arm whose program-counter addition panics on overflow
handler_Return_checked(ans) ==
    /\ IsSyscall
    /\ IF Field("sepc") + EcallWidth >= Modulus
       THEN /\ pc' = At("panic", 0)
            /\ UNCHANGED <<mem, regs>>
       ELSE /\ mem' = SetField(SetField(SetField(mem, "a0", ans.code),
                                        "a1", ans.extra),
                               "sepc", Field("sepc") + EcallWidth)
            /\ regs' = Clobbered(regs)
            /\ pc' = At("trap_entry", CallReturnIdx)
    /\ syscalls' = syscalls + 1
    /\ outcome' = [kind |-> "Return", call |-> SyscallArgs, ans |-> ans]
    /\ clean' = [clean EXCEPT ![current] = FALSE]
    /\ inflight' = CtxAt(mem', CtxPtr)
    /\ UNCHANGED <<priv, upc, sstatus, sepc, scause, stval, sscratch, stvec,
                   sched, console, entryCtx, traps, snap, diverged, nestedAt, built>>

\* SyscallOperation::Return(ans)
handler_Return(ans) ==
    /\ IsSyscall
    /\ mem' = SetField(SetField(SetField(mem, "a0", ans.code), "a1", ans.extra),
                       "sepc", WAdd(Field("sepc"), EcallWidth))
    /\ regs' = Clobbered(regs)
    /\ pc' = At("trap_entry", CallReturnIdx)
    /\ syscalls' = syscalls + 1
    /\ outcome' = [kind |-> "Return", call |-> SyscallArgs, ans |-> ans]
    /\ clean' = [clean EXCEPT ![current] = FALSE]
    /\ inflight' = CtxAt(mem', CtxPtr)
    /\ UNCHANGED <<priv, upc, sstatus, sepc, scause, stval, sscratch, stvec,
                   sched, console, entryCtx, traps, snap, diverged, nestedAt, built>>

\* SyscallOperation::Terminate(code)
handler_Terminate(code) ==
    /\ IsSyscall
    /\ console' = Append(console, [text |-> "[Kernel] Process returned with code",
                                   code |-> code])
    /\ pc' = At("exit_current_and_run_next", 0)
    /\ syscalls' = syscalls + 1
    /\ outcome' = [kind |-> "Terminate", call |-> SyscallArgs, code |-> code]
    /\ diverged' = TRUE
    /\ UNCHANGED <<hw, sched, entryCtx, traps, snap, clean, inflight, nestedAt, built>>

\* an unwrap that renders a missing field as the empty string
unwrap_or_blank(opt, dflt) == IF opt = "none" THEN "" ELSE opt

\* Option::unwrap_or
unwrap_or(opt, dflt) == IF opt = "none" THEN dflt ELSE opt

\* SyscallOperation::UserPanic(file, line, col, msg)
handler_UserPanic(file, msg) ==
    /\ IsSyscall
    /\ console' = Append(console, [text |-> "[Kernel] User process panicked at",
                                   msg |-> unwrap_or(msg, "<no message>"),
                                   file |-> unwrap_or(file, "<no file>")])
    /\ pc' = At("exit_current_and_run_next", 0)
    /\ syscalls' = syscalls + 1
    /\ outcome' = [kind |-> "UserPanic", call |-> SyscallArgs,
                   file |-> file, msg |-> msg]
    /\ diverged' = TRUE
    /\ UNCHANGED <<hw, sched, entryCtx, traps, snap, clean, inflight, nestedAt, built>>

\* a Yield arm that steps over the ecall before suspending
handler_Yield_advances ==
    /\ IsSyscall
    /\ mem' = SetField(mem, "sepc", WAdd(Field("sepc"), EcallWidth))
    /\ pc' = At("suspend_current_and_run_next", 0)
    /\ syscalls' = syscalls + 1
    /\ outcome' = [kind |-> "Yield", call |-> SyscallArgs]
    /\ diverged' = TRUE
    /\ clean' = [clean EXCEPT ![current] = FALSE]
    /\ UNCHANGED <<priv, regs, upc, sstatus, sepc, scause, stval, sscratch, stvec,
                   sched, console, entryCtx, traps, snap, inflight, nestedAt, built>>

\* a Yield arm that does not call the scheduler and returns
handler_Yield_returns ==
    /\ IsSyscall
    /\ regs' = Clobbered(regs)
    /\ pc' = At("trap_entry", CallReturnIdx)
    /\ syscalls' = syscalls + 1
    /\ outcome' = [kind |-> "Yield", call |-> SyscallArgs]
    /\ diverged' = TRUE
    /\ UNCHANGED <<priv, upc, sstatus, sepc, scause, stval, sscratch, stvec, mem,
                   sched, console, entryCtx, traps, snap, clean, inflight,
                   nestedAt, built>>

\* a Yield arm that stores a result code in a0 before suspending
handler_Yield_answers ==
    /\ IsSyscall
    /\ mem' = SetField(mem, "a0", 0)
    /\ pc' = At("suspend_current_and_run_next", 0)
    /\ syscalls' = syscalls + 1
    /\ outcome' = [kind |-> "Yield", call |-> SyscallArgs]
    /\ diverged' = TRUE
    /\ UNCHANGED <<priv, regs, upc, sstatus, sepc, scause, stval, sscratch, stvec,
                   sched, console, entryCtx, traps, snap, clean, inflight,
                   nestedAt, built>>

\* SyscallOperation::Yield
handler_Yield ==
    /\ IsSyscall
    /\ pc' = At("suspend_current_and_run_next", 0)
    /\ syscalls' = syscalls + 1
    /\ outcome' = [kind |-> "Yield", call |-> SyscallArgs]
    /\ diverged' = TRUE
    /\ UNCHANGED <<hw, sched, console, entryCtx, traps, snap, clean, inflight,
                   nestedAt, built>>

\* the three panic! arms
PanicText(cause) ==
    CASE cause \in {StoreFault, StorePageFault} ->
            "[kernel] PageFault in application, core dumped."
      [] cause = IllegalInstruction ->
            "[kernel] IllegalInstruction in application, core dumped."
      [] OTHER -> "Unsupported trap"

\* fault arms that retire the application instead of halting
handler_panic_isolates ==
    /\ InHandler
    /\ scause # UserEnvCall
    /\ console' = Append(console, [text |-> PanicText(scause), stval |-> stval])
    /\ pc' = At("exit_current_and_run_next", 0)
    /\ outcome' = [kind |-> "panic"]
    /\ UNCHANGED <<hw, sched, entryCtx, syscalls, ghost>>

handler_panic ==
    /\ InHandler
    /\ scause # UserEnvCall
    /\ console' = Append(console, [text |-> PanicText(scause), stval |-> stval])
    /\ pc' = At("panic", 0)
    /\ outcome' = [kind |-> "panic"]
    /\ UNCHANGED <<hw, sched, entryCtx, syscalls, ghost>>

rust_trap_handler ==
    \/ \E ans \in SyscallAnswers : handler_Return(ans)
    \/ \E code \in ExitCodes : handler_Terminate(code)
    \/ \E file \in OptText, msg \in OptText : handler_UserPanic(file, msg)
    \/ handler_Yield
    \/ handler_panic

(***************************************************************************)
(* The loader and the scheduler, which own the applications' contexts.     *)
(***************************************************************************)
\* jump to restore_trap with sp pointing at application n's context
Resume(n) ==
    /\ regs' = [r \in Gpr |-> IF r = x_sp THEN CtxBase(n) ELSE Junk]
    /\ pc' = At("restore_trap", 1)
    /\ current' = n
    /\ console' = << >>
    /\ syscalls' = 0
    /\ outcome' = NoOutcome
    /\ entryCtx' = ZeroCtx
    /\ inflight' = CtxAt(mem, CtxBase(n))

Ready(t) == { i \in Apps : t[i] = "ready" }

\* build application i's context on its kernel stack
Construct(i, entry) ==
    /\ mem' = WriteCtx(mem, CtxBase(i),
                       app_init_context(entry, i, UserStack(i), sstatus))
    /\ sstatus' = set_spp_User(sstatus)
    /\ built' = built \cup
          { [entry |-> entry, app_id |-> i, sp |-> UserStack(i), live |-> sstatus,
             ctx |-> app_init_context(entry, i, UserStack(i), sstatus)] }
    /\ clean' = [clean EXCEPT ![i] = FALSE]

LoadApp ==
    /\ pc.fn = "boot"
    /\ \E i \in Apps :
          /\ task[i] = "unloaded"
          /\ \A j \in Apps : j < i => task[j] # "unloaded"
          /\ Construct(i, EntryOf(i))
          /\ task' = [task EXCEPT ![i] = "ready"]
    /\ UNCHANGED <<pc, priv, regs, upc, sepc, scause, stval, sscratch, stvec,
                   current, disp, traps, snap, inflight, diverged, nestedAt>>

run_first_task ==
    /\ pc.fn = "boot"
    /\ \A i \in Apps : task[i] = "ready"
    /\ \E n \in Apps :
          /\ Resume(n)
          /\ task' = [task EXCEPT ![n] = "running"]
    /\ UNCHANGED <<priv, upc, sstatus, sepc, scause, stval, sscratch, stvec, mem,
                   traps, snap, clean, diverged, nestedAt, built>>

ReloadApp ==
    /\ pc.fn = "exit_current_and_run_next"
    /\ \E i \in Apps, entry \in Entries :
          /\ task[i] = "exited"
          /\ Construct(i, entry)
          /\ task' = [task EXCEPT ![i] = "ready"]
    /\ UNCHANGED <<pc, priv, regs, upc, sepc, scause, stval, sscratch, stvec,
                   current, disp, traps, snap, inflight, diverged, nestedAt>>

\* run the next ready application after `t`, or stop when none is left
RunNext(t) ==
    \/ \E n \in Ready(t) :
          /\ Resume(n)
          /\ task' = [t EXCEPT ![n] = "running"]
    \/ /\ Ready(t) = {}
       /\ pc' = At("shutdown", 0)
       /\ task' = t
       /\ UNCHANGED <<regs, current, disp, inflight>>

exit_current_and_run_next ==
    /\ pc.fn = "exit_current_and_run_next"
    /\ task[current] = "running"
    /\ RunNext([task EXCEPT ![current] = "exited"])
    /\ UNCHANGED <<priv, upc, sstatus, sepc, scause, stval, sscratch, stvec, mem,
                   traps, snap, clean, diverged, nestedAt, built>>

suspend_current_and_run_next ==
    /\ pc.fn = "suspend_current_and_run_next"
    /\ RunNext([task EXCEPT ![current] = "ready"])
    /\ UNCHANGED <<priv, upc, sstatus, sepc, scause, stval, sscratch, stvec, mem,
                   traps, snap, clean, diverged, nestedAt, built>>

(***************************************************************************)
(* Specification: user traps only (single hart, no trap while in S-mode).  *)
(***************************************************************************)
Next ==
    \/ LoadApp
    \/ run_first_task
    \/ UserExec
    \/ UserEcall
    \/ UserFault
    \/ csrrw
    \/ addi
    \/ sd
    \/ ld
    \/ csrr
    \/ csrw
    \/ la
    \/ mv
    \/ call
    \/ sret
    \/ rust_trap_handler
    \/ exit_current_and_run_next
    \/ suspend_current_and_run_next
    \/ ReloadApp

Spec == Init /\ [][Next]_vars

(***************************************************************************)
(* A second, synchronous trap taken while the hart is in S-mode inside the *)
(* trampolines, the dispatcher or the scheduler.  The run is followed up   *)
(* to the delivery of that trap.                                           *)
(***************************************************************************)
\* an address inside the kernel text, the sepc of a trap taken in S-mode
KernelText == 640

NestedCause(op) ==
    CASE op = "sd" -> StoreFault
      [] op = "ld" -> LoadFault
      [] OTHER -> IllegalInstruction

NestedTrap ==
    /\ priv = "S"
    /\ nestedAt = NoWhere
    /\ pc.fn \in { "trap_entry", "restore_trap", "rust_trap_handler",
                    "exit_current_and_run_next", "suspend_current_and_run_next" }
    /\ sepc' = KernelText
    /\ scause' = NestedCause(Instr.op)
    /\ stval' = 0
    /\ sstatus' = TrapSstatus(sstatus, 1)
    /\ pc' = IF stvec = SymAddr.trap_entry
             THEN At("trap_entry_reentered", 1)
             ELSE At("kernel_trap", 0)
    /\ nestedAt' = pc
    /\ UNCHANGED <<priv, regs, upc, sscratch, stvec, mem, sched, disp,
                   traps, snap, clean, inflight, diverged, built>>

NextNested == Next \/ NestedTrap

SpecNested == Init /\ [][NextNested]_vars


(***************************************************************************)
(* Properties.                                                             *)
(***************************************************************************)
\* the context block of the application that is being served
CurrentCtx == CtxAt(mem, CtxBase(current))

\* the dispatcher has just returned into trap_entry
HandlerReturned == pc = At("trap_entry", CallReturnIdx)

SyscallKinds == { "Return", "Terminate", "UserPanic", "Yield" }

\* C1: after a system-call trap answered with Return(code, extra), when
\* rust_trap_handler returns the saved a0 slot is code, the saved a1 slot is
\* extra and the saved program counter is the pre-trap program counter plus 4
\* (machine addition on the word width).
C1_SyscallResultInjection ==
    (HandlerReturned /\ outcome.kind = "Return") =>
        LET ctx == CtxAt(mem, regs[x_sp]) IN
            /\ ctx[TrapContext.a0] = outcome.ans.code
            /\ ctx[TrapContext.a1] = outcome.ans.extra
            /\ ctx[TrapContext.sepc] =
                  WAdd(snap[current][TrapContext.sepc], EcallWidth)

\* the example of the specification: entry 0x1000, Return(3, 0), sepc 0x1004
C1_Witness ==
    /\ HandlerReturned
    /\ outcome.kind = "Return"
    /\ outcome.ans = [code |-> 3, extra |-> 0]
    /\ snap[current][TrapContext.sepc] = 4096
    /\ entryCtx[TrapContext.a0] # 3
    /\ CtxAt(mem, regs[x_sp])[TrapContext.sepc] = 4100

\* C2: when a context saved by trap_entry is restored without the dispatcher
\* having changed it, every general-purpose register (sp and the scratch
\* temporaries t0..t3 included), sstatus and sepc hold at the sret instruction
\* the values they had when the trap entered trap_entry.
C2_RoundTripIdentity ==
    (Instr.op = "sret" /\ clean[current]) =>
        UserCtx(regs, sstatus, sepc) = snap[current]

C2_Witness ==
    /\ Instr.op = "sret"
    /\ clean[current]
    /\ snap[current][TrapContext.t0] = UserBase + x_t0
    /\ snap[current][TrapContext.sp] = UserBase + x_sp
    /\ regs[x_t3] = UserBase + x_t3

\* C3: while the dispatcher and the collaborators it calls are running, stvec
\* is the kernel-trap vector; at every sret of trap_entry or restore_trap and
\* throughout user execution, stvec is trap_entry.
C3_TrapVectorInvariant ==
    /\ pc.fn \in { "rust_trap_handler", "exit_current_and_run_next",
                   "suspend_current_and_run_next" }
          => stvec = SymAddr.kernel_trap
    /\ Instr.op = "sret" => stvec = SymAddr.trap_entry
    /\ pc.fn = "user" => stvec = SymAddr.trap_entry

\* the dispatcher runs for a second trap, after stvec had been trap_entry
C3_Witness ==
    /\ pc.fn = "rust_trap_handler"
    /\ traps = 2
    /\ stvec = SymAddr.kernel_trap

\* position of "csrw stvec, t3" in the restore sequence
VectorSwitchIdx == 8

\* the instructions at which stvec is the kernel-trap vector: from after the
\* "csrw stvec" of the save sequence up to the "csrw stvec" of the restore
DispatchWindow(p) ==
    \/ p.fn \in { "rust_trap_handler", "exit_current_and_run_next",
                  "suspend_current_and_run_next" }
    \/ /\ p.fn = "trap_entry"
       /\ p.idx >= Len(EntrySeq) - 1
       /\ p.idx <= Len(EntrySeq) + VectorSwitchIdx
    \/ /\ p.fn = "restore_trap"
       /\ p.idx <= VectorSwitchIdx

\* slot k of the in-flight user state is still in its register or CSR
HeldLive(k) ==
    IF k = TrapContext.sp THEN regs[x_sp] = inflight[k] \/ sscratch = inflight[k]
    ELSE IF k < 31 THEN regs[k + 1] = inflight[k]
    ELSE IF k = TrapContext.sstatus THEN sstatus = inflight[k]
    ELSE sepc = inflight[k]

\* the kernel stack pointer is in sp or parked in sscratch
KernelSpHeld ==
    \/ regs[x_sp] \in { KernelStackTop(current), CtxBase(current) }
    \/ sscratch \in { KernelStackTop(current), CtxBase(current) }

\* C4 as claimed: a second trap arriving at any instruction of the save or
\* restore sequence loses nothing: every part of the interrupted user state is
\* still in its register or in its context slot, and the kernel stack pointer
\* is still in sp or sscratch.
C4_NoRetrapWindow ==
    nestedAt # NoWhere =>
        /\ \A k \in 0 .. (CtxWords - 1) : HeldLive(k) \/ CurrentCtx[k] = inflight[k]
        /\ KernelSpHeld

\* C4 amended: once a trap has been taken, the user state is safe from a
\* second trap only between the "csrw stvec" of the save sequence and the
\* "csrw stvec" of the restore sequence: there the trap goes to the
\* kernel-trap vector and the saved context holds the complete user state; at
\* any other instruction of the save or restore sequence the trap re-enters
\* trap_entry.
C4_DispatchProtected ==
    nestedAt # NoWhere =>
        /\ (DispatchWindow(nestedAt) /\ traps >= 1)
              => (pc.fn = "kernel_trap" /\ CurrentCtx = inflight)
        /\ ~DispatchWindow(nestedAt) => pc.fn = "trap_entry_reentered"

C4_Witness ==
    /\ nestedAt.fn = "rust_trap_handler"
    /\ pc.fn = "kernel_trap"
    /\ inflight[TrapContext.t0] = UserBase + x_t0
    /\ sepc = KernelText

\* C5: a system-call trap invokes the syscall collaborator once; Return changes
\* the context and returns to the trampoline, Terminate and UserPanic go to
\* exit_current_and_run_next and Yield to suspend_current_and_run_next with the
\* context unchanged.
C5_ClassificationCompleteness ==
    [][ IsSyscall =>
          /\ syscalls' = 1
          /\ outcome'.kind \in SyscallKinds
          /\ outcome'.kind = "Return" =>
                /\ pc' = At("trap_entry", CallReturnIdx)
                /\ CtxAt(mem', CtxPtr) # entryCtx
          /\ outcome'.kind \in { "Terminate", "UserPanic" } =>
                /\ pc'.fn = "exit_current_and_run_next"
                /\ CtxAt(mem', CtxPtr) = entryCtx
          /\ outcome'.kind = "Yield" =>
                /\ pc'.fn = "suspend_current_and_run_next"
                /\ CtxAt(mem', CtxPtr) = entryCtx ]_vars

C5_Witness ==
    /\ pc.fn = "suspend_current_and_run_next"
    /\ outcome.kind = "Yield"
    /\ syscalls = 1
    /\ CurrentCtx = entryCtx

\* C6: for a cause other than a user system call the dispatcher halts the
\* kernel, having invoked neither the syscall collaborator nor the scheduler
\* and with the context as it was saved; nothing runs after the halt.
C6_FatalPathDeterminism ==
    /\ [][ (InHandler /\ scause # UserEnvCall) =>
              /\ pc'.fn = "panic"
              /\ mem' = mem
              /\ task' = task
              /\ current' = current ]_vars
    /\ [](pc.fn = "panic" =>
              /\ syscalls = 0
              /\ ~diverged
              /\ CurrentCtx = entryCtx
              /\ entryCtx = snap[current])
    /\ [][ pc.fn = "panic" => pc' = pc ]_vars

C6_Witness ==
    /\ pc.fn = "panic"
    /\ scause = IllegalInstruction
    /\ traps = 2

\* C7: Terminate and UserPanic hand over to exit_current_and_run_next and
\* Yield to suspend_current_and_run_next; after the hand-over control is never
\* again in that dispatcher invocation nor in the restore tail of trap_entry,
\* and user code runs again only out of restore_trap.
C7_SchedulerHandOff ==
    /\ [][ IsSyscall =>
              /\ outcome'.kind \in { "Terminate", "UserPanic" }
                    => pc'.fn = "exit_current_and_run_next"
              /\ outcome'.kind = "Yield"
                    => pc'.fn = "suspend_current_and_run_next" ]_vars
    /\ [](diverged =>
              /\ pc.fn # "rust_trap_handler"
              /\ ~(pc.fn = "trap_entry" /\ pc.idx >= CallReturnIdx))
    /\ [][ (diverged /\ pc.fn # "user" /\ pc'.fn = "user")
              => pc.fn = "restore_trap" ]_vars

\* a suspended application is back in user mode with its context untouched
C7_Witness ==
    /\ pc.fn = "user"
    /\ diverged
    /\ clean[current]
    /\ upc = snap[current][TrapContext.sepc]

\* C8: the application identifier passed to the syscall collaborator is the
\* one the trapping application's context was constructed with (LoadApp and
\* ReloadApp construct application i's context with app_id = i).
C8_ApplicationIdentity ==
    outcome.kind \in SyscallKinds => outcome.call.app_id = current

\* C9: two constructions with equal (entry, app_id, sp) return equal contexts,
\* whatever sstatus holds at each call.
C9_IdempotentConstruction ==
    \A a \in built, b \in built :
        (a.entry = b.entry /\ a.app_id = b.app_id /\ a.sp = b.sp) => a.ctx = b.ctx

\* C10: app_init_context returns a context with sepc = entry, sp slot = sp,
\* tp slot = app_id, previous privilege User and every other register slot 0.
C10_ConstructionResult ==
    \A b \in built :
        /\ Bit(b.ctx[TrapContext.sstatus], SPP_BIT) = 0
        /\ b.ctx = [ZeroCtx EXCEPT ![TrapContext.sepc] = b.entry,
                                   ![TrapContext.sp] = b.sp,
                                   ![TrapContext.tp] = b.app_id,
                                   ![TrapContext.sstatus] = b.ctx[TrapContext.sstatus]]

\* a construction made while the live sstatus had previous privilege Supervisor
C10_Witness ==
    \E b \in built :
        /\ Bit(b.live, SPP_BIT) = 1
        /\ b.app_id = 0
        /\ b.entry = EntryOf(0)
        /\ CtxAt(mem, CtxBase(0)) = b.ctx


\* the hart is about to execute the sret of a restore sequence
AtSret == Instr.op = "sret"

\* the machine state a restore sequence started on context c at address a
\* must present to sret
Restored(c, a) ==
    /\ UserCtx(regs, sstatus, sepc) = c
    /\ sscratch = WAdd(a, CtxWords * SlotBytes)
    /\ stvec = SymAddr.trap_entry

\* C11: restore_trap and the restore tail of trap_entry, started on the same
\* context at the same address, reach sret with the same general-purpose
\* registers, sstatus, sepc, sscratch and stvec: in both the state at sret is
\* the one function Restored of the context and its address, whether the
\* context was saved by the latest trap, rewritten by the dispatcher or
\* built by app_init_context.
C11_ReturnTrampolineEquivalence ==
    AtSret => Restored(inflight, CtxBase(current))

\* restore_trap reaches sret on a built context while the context saved by
\* the latest trap belongs to another application
C11_Witness ==
    /\ AtSret
    /\ pc.fn = "restore_trap"
    /\ traps = 1
    /\ \E i \in Apps : i # current /\ clean[i] /\ snap[i] # inflight
    /\ Restored(inflight, CtxBase(current))


\* the register number xN behind each register name the structure uses
AbiReg ==
    [ ra |-> 1, sp |-> 2, gp |-> 3, tp |-> 4, t0 |-> 5, t1 |-> 6, t2 |-> 7,
      s0 |-> 8, s1 |-> 9, a0 |-> 10, a1 |-> 11, a2 |-> 12, a3 |-> 13,
      a4 |-> 14, a5 |-> 15, a6 |-> 16, a7 |-> 17, s2 |-> 18, s3 |-> 19,
      s4 |-> 20, s5 |-> 21, s6 |-> 22, s7 |-> 23, s8 |-> 24, s9 |-> 25,
      s10 |-> 26, s11 |-> 27, t3 |-> 28, t4 |-> 29, t5 |-> 30, t6 |-> 31 ]

\* the structure is 33 words, field xi at position i - 1, then sstatus, sepc
FieldsInRegisterOrder ==
    /\ Cardinality(DOMAIN ZeroCtx) = 33
    /\ \A name \in DOMAIN AbiReg : TrapContext[name] = AbiReg[name] - 1
    /\ TrapContext.sstatus = 31 /\ TrapContext.sepc = 32

\* the value register xi of the running application held when it trapped
UserReg(i) == snap[current][i - 1]

\* C12: the context is 33 words; for every xi the slot trap_entry stored it
\* to, the slot a restore sequence loaded it from and the position of the
\* like-named structure field are all i - 1, with sstatus at 31 and sepc at
\* 32; so the fields the dispatcher reads by name (a7, a6, a0..a5, tp) hold
\* the user's x17, x16, x10..x15 and x4 at the trap.
C12_RegisterLayout ==
    /\ FieldsInRegisterOrder
    /\ InHandler =>
          /\ CtxAt(mem, CtxPtr) = [k \in 0 .. 32 |->
                IF k = 31 THEN sstatus ELSE IF k = 32 THEN upc ELSE UserReg(k + 1)]
          /\ SyscallArgs.op = UserReg(17)
          /\ SyscallArgs.sec = UserReg(16)
          /\ \A j \in 1 .. 6 : SyscallArgs.args[j] = UserReg(9 + j)
          /\ SyscallArgs.app_id = UserReg(4)
    /\ AtSret =>
          /\ \A i \in Gpr : regs[i] = inflight[i - 1]
          /\ sstatus = inflight[31]
          /\ sepc = inflight[32]

\* the dispatcher is entered for a call made with every register distinct
C12_Witness ==
    /\ IsSyscall
    /\ \A i \in Gpr : UserReg(i) = UserBase + i
    /\ SyscallArgs.op = UserBase + 17
    /\ SyscallArgs.sec = UserBase + 16
    /\ SyscallArgs.app_id = UserBase + 4


\* the dispatcher or one of the collaborators it ends in is executing
Dispatching ==
    pc.fn \in { "rust_trap_handler", "exit_current_and_run_next",
                "suspend_current_and_run_next", "panic" }

\* C13: outside the exchange instructions sscratch holds the other stack
\* pointer: the kernel stack pointer of the running application while user
\* code executes, and while the dispatcher executes the trapped application's
\* user stack pointer, which equals the sp slot (index 1) of its context.
C13_ScratchRelay ==
    /\ pc.fn = "user" => sscratch = KernelStackTop(current)
    /\ Dispatching =>
          /\ sscratch = UserReg(x_sp)
          /\ sscratch = CtxAt(mem, CtxBase(current))[TrapContext.sp]

\* the dispatcher runs for an application that had moved its stack pointer
C13_Witness ==
    /\ InHandler
    /\ UserReg(x_sp) = UserBase + x_sp
    /\ sscratch = UserBase + x_sp
    /\ regs[x_sp] = CtxBase(current)


\* the hart is in the save half of trap_entry
InEntry == pc.fn = "trap_entry" /\ pc.idx <= Len(EntrySeq)

\* how many instructions of the save half the current trap has executed
EntryDone ==
    IF InEntry THEN pc.idx - 1 ELSE IF InHandler THEN Len(EntrySeq) ELSE 0

\* the instructions of the save half that make up each step of the protocol
SwapSteps == { j \in DOMAIN EntrySeq : EntrySeq[j].op = "csrrw" }
ReserveSteps == { j \in DOMAIN EntrySeq : EntrySeq[j].op = "addi" }
GprStoreSteps ==
    { j \in DOMAIN EntrySeq :
        EntrySeq[j].op = "sd" /\ EntrySeq[j].k \notin { 1, 31, 32 } }
SpStoreSteps ==
    { j \in DOMAIN EntrySeq :
        \/ EntrySeq[j].op = "sd" /\ EntrySeq[j].k = 1
        \/ EntrySeq[j].op = "csrr" /\ EntrySeq[j].c = "sscratch" }
CsrStoreSteps ==
    { j \in DOMAIN EntrySeq :
        \/ EntrySeq[j].op = "sd" /\ EntrySeq[j].k \in { 31, 32 }
        \/ EntrySeq[j].op = "csrr" /\ EntrySeq[j].c \in { "sstatus", "sepc" } }
SwitchSteps ==
    { j \in DOMAIN EntrySeq :
        EntrySeq[j].op \in { "la", "csrw" } /\ EntrySeq[j].c \in { "kernel_trap", "stvec" } }
CallSteps ==
    { j \in DOMAIN EntrySeq : EntrySeq[j].op \in { "mv", "call" } }

\* no instruction of step B has executed unless step A is complete
StepBefore(A, B) ==
    LET d == EntryDone
    IN  (\E j \in B : j <= d) => (A # {} /\ \A i \in A : i <= d)

\* the context slots the current trap has stored so far
StoredSlots ==
    { EntrySeq[j].k : j \in { i \in 1 .. EntryDone : EntrySeq[i].op = "sd" } }

\* what the executed steps have done to memory and to the trap vector
EntryEffects ==
    (InEntry \/ InHandler) =>
        /\ \A k \in StoredSlots :
              Load(WAdd(regs[x_sp], SlotBytes * k)) = snap[current][k]
        /\ stvec = IF \A j \in SwitchSteps : j <= EntryDone
                   THEN SymAddr.kernel_trap ELSE SymAddr.trap_entry

\* C14: trap_entry performs its steps in the order (1) exchange sp with
\* sscratch, (2) reserve 33 words, (3) store every general-purpose register
\* except sp, (4) read back sscratch and store the user stack pointer into
\* slot 1, (5) store sstatus and sepc into slots 31 and 32, (6) switch stvec,
\* (7) call the dispatcher: the user stack pointer is stored before the
\* status and program-counter CSRs.
C14_EntryProtocolOrder ==
    (InEntry \/ InHandler) =>
        /\ StepBefore(SwapSteps, ReserveSteps)
        /\ StepBefore(ReserveSteps, GprStoreSteps)
        /\ StepBefore(GprStoreSteps, SpStoreSteps)
        /\ StepBefore(SpStoreSteps, CsrStoreSteps)
        /\ StepBefore(CsrStoreSteps, SwitchSteps)
        /\ StepBefore(SwitchSteps, CallSteps)
        /\ EntryEffects

\* C14 (amended): the order is (1) exchange, (2) reserve 33 words, (3) store
\* every general-purpose register except sp, (4) store sstatus and sepc into
\* slots 31 and 32, (5) read back sscratch and store the user stack pointer
\* into slot 1, (6) switch stvec, (7) call the dispatcher: the user stack
\* pointer is stored after the two CSRs, and stvec is switched only after
\* every save has completed.
C14_EntryOrderAsCoded ==
    (InEntry \/ InHandler) =>
        /\ StepBefore(SwapSteps, ReserveSteps)
        /\ StepBefore(ReserveSteps, GprStoreSteps)
        /\ StepBefore(GprStoreSteps, CsrStoreSteps)
        /\ StepBefore(CsrStoreSteps, SpStoreSteps)
        /\ StepBefore(SpStoreSteps, SwitchSteps)
        /\ StepBefore(SwitchSteps, CallSteps)
        /\ InHandler => StoredSlots = 0 .. (CtxWords - 1)
        /\ EntryEffects

\* sstatus and sepc are in their slots while slot 1 still holds the stack
\* pointer of an earlier resume
C14_Witness ==
    /\ InEntry
    /\ { 31, 32 } \subseteq StoredSlots
    /\ 1 \notin StoredSlots
    /\ CtxAt(mem, regs[x_sp])[1] # snap[current][1]
    /\ CtxAt(mem, regs[x_sp])[32] = snap[current][32]
    /\ stvec = SymAddr.trap_entry


\* C15: every sret executed by trap_entry or restore_trap resumes in user
\* mode: the sstatus restored from the context has previous privilege User,
\* both for contexts built by app_init_context and for contexts saved by a
\* trap that entered trap_entry.
C15_UserModeReturn ==
    /\ AtSret => Bit(sstatus, SPP_BIT) = 0 /\ Bit(inflight[31], SPP_BIT) = 0
    /\ pc.fn # "s_mode"
    /\ pc.fn = "user" => priv = "U"
    /\ \A b \in built : Bit(b.ctx[TrapContext.sstatus], SPP_BIT) = 0
    /\ InHandler => Bit(Field("sstatus"), SPP_BIT) = 0

\* the tail of trap_entry reaches sret on a context saved by a trap, for an
\* application built while the live sstatus had previous privilege Supervisor
C15_Witness ==
    /\ AtSret
    /\ pc.fn = "trap_entry"
    /\ traps >= 1
    /\ \E b \in built : Bit(b.live, SPP_BIT) = 1 /\ b.app_id = current


\* C16: on Yield the dispatcher reaches suspend_current_and_run_next with the
\* context exactly as trap_entry saved it: every field is the user's value at
\* the trap, sepc is the address of the trapping call (not advanced by 4) and
\* a0, a1 are the user's call arguments.
C16_YieldPreservesContext ==
    pc.fn = "suspend_current_and_run_next" =>
        /\ outcome.kind = "Yield"
        /\ CurrentCtx = snap[current]
        /\ CurrentCtx = entryCtx
        /\ CurrentCtx[TrapContext.sepc] = upc
        /\ CurrentCtx[TrapContext.a0] = UserReg(x_a0)
        /\ CurrentCtx[TrapContext.a1] = UserReg(x_a0 + 1)

\* a yield made from the user text with distinct argument registers
C16_Witness ==
    /\ pc.fn = "suspend_current_and_run_next"
    /\ CurrentCtx[TrapContext.sepc] = UserText
    /\ CurrentCtx[TrapContext.a0] = UserBase + x_a0
    /\ CurrentCtx[TrapContext.a1] = UserBase + x_a0 + 1


\* C17: UserPanic does not halt the kernel: the dispatcher has emitted exactly
\* one diagnostic, with "<no file>" and "<no message>" in place of missing
\* fields, when exit_current_and_run_next is called; Terminate has emitted
\* exactly one exit-code line when exit_current_and_run_next is called; Yield
\* emits nothing.
C17_UserPanicScoped ==
    /\ outcome.kind \in { "UserPanic", "Terminate", "Yield" } => pc.fn # "panic"
    /\ (pc.fn = "exit_current_and_run_next" /\ outcome.kind = "UserPanic") =>
          console =
            << [ text |-> "[Kernel] User process panicked at",
                 msg |-> IF outcome.msg = "none" THEN "<no message>" ELSE outcome.msg,
                 file |-> IF outcome.file = "none" THEN "<no file>" ELSE outcome.file ] >>
    /\ (pc.fn = "exit_current_and_run_next" /\ outcome.kind = "Terminate") =>
          console = << [ text |-> "[Kernel] Process returned with code",
                         code |-> outcome.code ] >>
    /\ pc.fn = "exit_current_and_run_next" =>
          outcome.kind \in { "UserPanic", "Terminate" }
    /\ pc.fn = "suspend_current_and_run_next" =>
          outcome.kind = "Yield" /\ console = << >>

\* a user panic without file name, with a message, has been reported and the
\* application is being retired
C17_Witness ==
    /\ pc.fn = "exit_current_and_run_next"
    /\ outcome.kind = "UserPanic"
    /\ outcome.file = "none"
    /\ outcome.msg = "some"
    /\ Len(console) = 1
    /\ console[1].file = "<no file>"
    /\ console[1].msg = "some"


\* the slots the Return arm writes
ReturnSlots == { TrapContext.a0, TrapContext.a1, TrapContext.sepc }

\* the tail of trap_entry is running after a Return
Returning ==
    pc.fn = "trap_entry" /\ pc.idx >= CallReturnIdx /\ outcome.kind = "Return"

\* C18: on Return the handler changes only the a0, a1 and sepc slots; every
\* other field (ra, sp, gp, tp, t0..t6, s0..s11, a2..a7, sstatus) is as saved,
\* and user code resumes with those registers, the stack pointer included,
\* equal to their values at the call.
C18_ReturnFrame ==
    /\ (HandlerReturned /\ outcome.kind = "Return") =>
          LET ctx == CurrentCtx
          IN  \A k \in (0 .. (CtxWords - 1)) \ ReturnSlots :
                  /\ ctx[k] = entryCtx[k]
                  /\ ctx[k] = snap[current][k]
    /\ (Returning /\ AtSret) =>
          /\ \A i \in Gpr \ { x_a0, x_a0 + 1 } : regs[i] = UserReg(i)
          /\ sstatus = snap[current][TrapContext.sstatus]

\* the user is about to resume after a Return with its own stack pointer and
\* the answer in a0
C18_Witness ==
    /\ Returning
    /\ AtSret
    /\ regs[x_sp] = UserBase + x_sp
    /\ regs[x_a0 + 2] = UserBase + x_a0 + 2
    /\ regs[x_a0] = 117
    /\ sepc = UserText + EcallWidth


\* the hart is between the reservation of the context block in trap_entry
\* and its release in a restore sequence
OnContext ==
    \/ InHandler
    \/ pc.fn = "trap_entry" /\ pc.idx >= 3 /\ Instr.op # "sret"
                            /\ trap_entry[pc.idx - 1].op # "addi"
    \/ pc.fn = "restore_trap" /\ Instr.op # "sret"
                              /\ (pc.idx > 1 => restore_trap[pc.idx - 1].op # "addi")

\* C19: when a restore sequence reaches sret for the context at address A,
\* sscratch is A + 33 words; so across trap, Return and resume cycles the
\* kernel stack pointer parked in sscratch while the application runs is
\* the one its trap found, and each trap of the application saves at the
\* same address A, never in the context block of another application.
C19_KernelStackBalance ==
    /\ AtSret => sscratch = WAdd(CtxBase(current), CtxWords * SlotBytes)
    /\ pc.fn = "user" => WAdd(sscratch, 0 - CtxWords * SlotBytes) = CtxBase(current)
    /\ OnContext => regs[x_sp] = CtxBase(current)
    /\ InHandler => CtxPtr = CtxBase(current)
    /\ \A i \in Apps \ { current } :
          (InHandler \/ AtSret) /\ clean[i] =>
              CtxAt(mem, CtxBase(i)) = snap[i]

\* the second trap of an application that was answered with Return is saved
\* where the first one was
C19_Witness ==
    /\ InHandler
    /\ traps = 2
    /\ Field("sepc") = WAdd(UserText, EcallWidth)
    /\ CtxPtr = CtxBase(current)
    /\ sscratch = UserBase + x_sp


\* the addresses from which adding the width of ecall passes the top of the
\* address space
TopAddresses == (Modulus - EcallWidth) .. (Modulus - 1)

\* C20: on Return the new saved program counter is (old + 4) modulo the word
\* modulus for every old value; for an old value in the top four byte
\* addresses the dispatcher does not panic and stores the wrapped value.
C20_PcAdvanceWraps ==
    outcome.kind = "Return" =>
        /\ pc.fn # "panic"
        /\ HandlerReturned =>
              /\ CurrentCtx[TrapContext.sepc]
                    = (entryCtx[TrapContext.sepc] + EcallWidth) % Modulus
              /\ entryCtx[TrapContext.sepc] \in TopAddresses =>
                    CurrentCtx[TrapContext.sepc]
                        = entryCtx[TrapContext.sepc] + EcallWidth - Modulus

\* a call made at the last word of the address space has been answered
C20_Witness ==
    /\ HandlerReturned
    /\ outcome.kind = "Return"
    /\ entryCtx[TrapContext.sepc] = Modulus - EcallWidth
    /\ CurrentCtx[TrapContext.sepc] = 0

====
